---------------------------- MODULE Spec2Model ----------------------------
(***************************************************************************)
(* Model of rustboy9001's cartridge-header decoder (src/rom.rs, util.rs)   *)
(* and of the driver that decodes an image and queries its three           *)
(* validation predicates (src/main.rs).                                    *)
(*                                                                         *)
(* A buffer is a sequence of bytes; the byte at address a (0-based, as in  *)
(* the source) is buf[a + 1].  A String is the sequence of its code        *)
(* points; a message (format!) is a TLA+ string.                           *)
(***************************************************************************)
EXTENDS Integers, Sequences, FiniteSets, TLC

VARIABLES
    buf,                    \* the bytes of the ROM file handed to from_buffer
    pc,                     \* position of the driver
    result,                 \* outcome of Rom::from_buffer
    header_checksum_valid,  \* value returned by is_header_checksum_valid
    global_checksum_valid,  \* value returned by is_global_checksum_valid
    nintendo_logo_valid,    \* value returned by is_nintendo_logo_valid
    tampered                \* how the image was altered after a first run

vars == <<buf, pc, result, header_checksum_valid, global_checksum_valid,
          nintendo_logo_valid, tampered>>

---------------------------------------------------------------------------
(* Header address constants, rom.rs:17-31 *)

ENTRY_POINT_ADDR == 256
NINTENDO_LOGO_ADDR == 260
TITLE_ADDR == 308
MANUFACTURER_CODE_ADDR == 319
CGB_FLAG_ADDR == 323
NEW_LICENSEE_CODE_ADDR == 324
SGB_FLAG_ADDR == 326
CARTRIDGE_TYPE_ADDR == 327
ROM_SIZE_ADDR == 328
RAM_SIZE_ADDR == 329
DESTINATION_CODE_ADDR == 330
OLD_LICENSEE_CODE_ADDR == 331
MASK_ROM_VERSION_NUMBER_ADDR == 332
HEADER_CHECKSUM_ADDR == 333
GLOBAL_CHECKSUM_ADDR == 334

NEW_CARTRIDGE_FLAG == 51

VALID_NINTENDO_LOGO ==
    << 206, 237, 102, 102, 204,  13,   0,  11,   3, 115,   0, 131,   0,  12,   0,  13,
         0,   8,  17,  31, 136, 137,   0,  14, 220, 204, 110, 230, 221, 221, 217, 153,
       187, 187, 103,  99, 110,  14, 236, 204, 221, 220, 153, 159, 187, 185,  51,  62 >>

U8 == 256
U16 == 65536
Byte == 0 .. 255

---------------------------------------------------------------------------
(* Enumerations: from_u8 returns Some(variant) or None *)

None == "None"

CgbFlag_from_u8(n) ==
    CASE n = 0   -> "NoCgb"
      [] n = 128 -> "SupportsCgb"
      [] n = 192 -> "CgbOnly"
      [] OTHER   -> None

SgbFlag_from_u8(n) ==
    CASE n = 0 -> "NoSgbSupport"
      [] n = 3 -> "SgbSupport"
      [] OTHER -> None

CartridgeType_from_u8_fallback(n) ==
    CASE n = 0   -> "Rom"
      [] n = 1   -> "Mbc1"
      [] n = 2   -> "Mbc1Ram"
      [] n = 3   -> "Mbc1RamBattery"
      [] n = 5   -> "Mbc2"
      [] n = 6   -> "Mbc2Battery"
      [] n = 8   -> "RomRam"
      [] n = 9   -> "RomRamBattery"
      [] n = 11  -> "Mmm01"
      [] n = 12  -> "Mmm01Ram"
      [] n = 13  -> "Mmm01RamBattery"
      [] n = 15  -> "Mbc3TimerBattery"
      [] n = 16  -> "Mbc3TimerRamBattery"
      [] n = 17  -> "Mbc3"
      [] n = 18  -> "Mbc3Ram"
      [] n = 19  -> "Mbc3RamBattery"
      [] n = 21  -> "Mbc4"
      [] n = 22  -> "Mbc4Ram"
      [] n = 23  -> "Mbc4RamBattery"
      [] n = 25  -> "Mbc5"
      [] n = 26  -> "Mbc5Ram"
      [] n = 27  -> "Mbc5RamBattery"
      [] n = 28  -> "Mbc5Rumble"
      [] n = 29  -> "Mbc5RumbleRam"
      [] n = 30  -> "Mbc5RumbleRamBattery"
      [] n = 32  -> "Mbc6"
      [] n = 34  -> "Mbc7SensorRumbleRamBattery"
      [] n = 252 -> "PocketCamera"
      [] n = 253 -> "BandaiTama5"
      [] n = 254 -> "HuC3"
      [] n = 255 -> "HuC1RamBattery"
      [] OTHER   -> "Rom"

CartridgeType_from_u8(n) ==
    CASE n = 0   -> "Rom"
      [] n = 1   -> "Mbc1"
      [] n = 2   -> "Mbc1Ram"
      [] n = 3   -> "Mbc1RamBattery"
      [] n = 5   -> "Mbc2"
      [] n = 6   -> "Mbc2Battery"
      [] n = 8   -> "RomRam"
      [] n = 9   -> "RomRamBattery"
      [] n = 11  -> "Mmm01"
      [] n = 12  -> "Mmm01Ram"
      [] n = 13  -> "Mmm01RamBattery"
      [] n = 15  -> "Mbc3TimerBattery"
      [] n = 16  -> "Mbc3TimerRamBattery"
      [] n = 17  -> "Mbc3"
      [] n = 18  -> "Mbc3Ram"
      [] n = 19  -> "Mbc3RamBattery"
      [] n = 21  -> "Mbc4"
      [] n = 22  -> "Mbc4Ram"
      [] n = 23  -> "Mbc4RamBattery"
      [] n = 25  -> "Mbc5"
      [] n = 26  -> "Mbc5Ram"
      [] n = 27  -> "Mbc5RamBattery"
      [] n = 28  -> "Mbc5Rumble"
      [] n = 29  -> "Mbc5RumbleRam"
      [] n = 30  -> "Mbc5RumbleRamBattery"
      [] n = 32  -> "Mbc6"
      [] n = 34  -> "Mbc7SensorRumbleRamBattery"
      [] n = 252 -> "PocketCamera"
      [] n = 253 -> "BandaiTama5"
      [] n = 254 -> "HuC3"
      [] n = 255 -> "HuC1RamBattery"
      [] OTHER   -> None

RomSize_from_u8(n) ==
    CASE n = 0  -> "RomBanks0"
      [] n = 1  -> "RomBanks4"
      [] n = 2  -> "RomBanks8"
      [] n = 3  -> "RomBanks16"
      [] n = 4  -> "RomBanks32"
      [] n = 5  -> "RomBanks64"
      [] n = 6  -> "RomBanks128"
      [] n = 7  -> "RomBanks256"
      [] n = 82 -> "RomBanks72"
      [] n = 83 -> "RomBanks80"
      [] n = 84 -> "RomBanks96"
      [] OTHER  -> None

RamSize_from_u8(n) ==
    CASE n = 0 -> "RamNone"
      [] n = 1 -> "Ram2K"
      [] n = 2 -> "Ram8K"
      [] n = 3 -> "Ram32K"
      [] n = 4 -> "Ram128K"
      [] n = 5 -> "Ram64K"
      [] OTHER -> None

DestinationCode_from_u8(n) ==
    CASE n = 0 -> "Japanese"
      [] n = 1 -> "NonJapanese"
      [] OTHER -> None

(* The discriminant each enum declaration gives its variants *)
CgbFlag == [NoCgb |-> 0, SupportsCgb |-> 128, CgbOnly |-> 192]

SgbFlag == [NoSgbSupport |-> 0, SgbSupport |-> 3]

CartridgeType ==
    [Rom |-> 0, Mbc1 |-> 1, Mbc1Ram |-> 2, Mbc1RamBattery |-> 3, Mbc2 |-> 5,
     Mbc2Battery |-> 6, RomRam |-> 8, RomRamBattery |-> 9, Mmm01 |-> 11,
     Mmm01Ram |-> 12, Mmm01RamBattery |-> 13, Mbc3TimerBattery |-> 15,
     Mbc3TimerRamBattery |-> 16, Mbc3 |-> 17, Mbc3Ram |-> 18,
     Mbc3RamBattery |-> 19, Mbc4 |-> 21, Mbc4Ram |-> 22, Mbc4RamBattery |-> 23,
     Mbc5 |-> 25, Mbc5Ram |-> 26, Mbc5RamBattery |-> 27, Mbc5Rumble |-> 28,
     Mbc5RumbleRam |-> 29, Mbc5RumbleRamBattery |-> 30, Mbc6 |-> 32,
     Mbc7SensorRumbleRamBattery |-> 34, PocketCamera |-> 252,
     BandaiTama5 |-> 253, HuC3 |-> 254, HuC1RamBattery |-> 255]

RomSize ==
    [RomBanks0 |-> 0, RomBanks4 |-> 1, RomBanks8 |-> 2, RomBanks16 |-> 3,
     RomBanks32 |-> 4, RomBanks64 |-> 5, RomBanks128 |-> 6, RomBanks256 |-> 7,
     RomBanks72 |-> 82, RomBanks80 |-> 83, RomBanks96 |-> 84]

RamSize ==
    [RamNone |-> 0, Ram2K |-> 1, Ram8K |-> 2, Ram32K |-> 3, Ram64K |-> 5,
     Ram128K |-> 4]

DestinationCode == [Japanese |-> 0, NonJapanese |-> 1]

---------------------------------------------------------------------------
(* Machine arithmetic and formatting *)

At(b, addr) == b[addr + 1]

InBounds(b, addr) == addr < Len(b)

Slice(b, from, to) == SubSeq(b, from + 1, to)

RECURSIVE BitOr(_, _)
BitOr(x, y) ==
    IF x = 0 THEN y
    ELSE IF y = 0 THEN x
    ELSE (IF x % 2 = 1 \/ y % 2 = 1 THEN 1 ELSE 0) + 2 * BitOr(x \div 2, y \div 2)

ShiftLeft16(x, n) == (x * 2^n) % U16

wrapping_sub16(x, y) == (x - y) % U16

wrapping_add16(x, y) == (x + y) % U16

Digit(d) ==
    CASE d = 0 -> "0" [] d = 1 -> "1" [] d = 2 -> "2" [] d = 3 -> "3"
      [] d = 4 -> "4" [] d = 5 -> "5" [] d = 6 -> "6" [] d = 7 -> "7"
      [] d = 8 -> "8" [] d = 9 -> "9" [] d = 10 -> "A" [] d = 11 -> "B"
      [] d = 12 -> "C" [] d = 13 -> "D" [] d = 14 -> "E" [] d = 15 -> "F"

RECURSIVE Digits(_, _)
Digits(n, radix) ==
    IF n < radix THEN Digit(n)
    ELSE Digits(n \div radix, radix) \o Digit(n % radix)

(* format!("{}", n) *)
FmtDisplay(n) == Digits(n, 10)

(* format!("{:#X}", n) *)
FmtUpperHexAlt(n) == "0x" \o Digits(n, 16)

---------------------------------------------------------------------------
(* Outcomes of a call: a value, an Err(RomLoadError), or a panic that      *)
(* unwinds out of the call.                                                *)

Ok(v) == [kind |-> "Ok", rom |-> v]

Err(msg) == [kind |-> "Err", error |-> "FormatError", msg |-> msg]

Panic(msg) == [kind |-> "Panic", msg |-> msg]

Some(v) == [kind |-> "Some", val |-> v]

---------------------------------------------------------------------------
(* util.rs *)

(* vec[vec_index] of a Vec panics when the index is past the end *)
IndexPanic == Panic("index out of bounds")

get_subarray_of_vector(arr_len, vec, start) ==
    LET end == start + arr_len
    IN IF Len(vec) < end - 1
          THEN Panic("Error! Attempting to read past the end of a vector")
       ELSE IF \E vec_index \in start .. end - 1 : ~InBounds(vec, vec_index)
          THEN IndexPanic
       ELSE Some([arr_index \in 1 .. arr_len |-> At(vec, start + arr_index - 1)])

(* str::from_utf8: the width of the well-formed UTF-8 sequence that starts *)
(* at position i of s, or 0 when none does.                                *)
IsCont(s, i) == i <= Len(s) /\ s[i] \in 128 .. 191

Utf8Width(s, i) ==
    LET b0 == s[i]
        In(k, lo, hi) == k <= Len(s) /\ s[k] \in lo .. hi
    IN CASE b0 < 128 -> 1
         [] b0 \in 194 .. 223 -> IF IsCont(s, i + 1) THEN 2 ELSE 0
         [] b0 = 224 ->
              IF In(i + 1, 160, 191) /\ IsCont(s, i + 2) THEN 3 ELSE 0
         [] b0 \in (225 .. 236) \cup (238 .. 239) ->
              IF IsCont(s, i + 1) /\ IsCont(s, i + 2) THEN 3 ELSE 0
         [] b0 = 237 ->
              IF In(i + 1, 128, 159) /\ IsCont(s, i + 2) THEN 3 ELSE 0
         [] b0 = 240 ->
              IF In(i + 1, 144, 191) /\ IsCont(s, i + 2) /\ IsCont(s, i + 3)
                 THEN 4 ELSE 0
         [] b0 \in 241 .. 243 ->
              IF IsCont(s, i + 1) /\ IsCont(s, i + 2) /\ IsCont(s, i + 3)
                 THEN 4 ELSE 0
         [] b0 = 244 ->
              IF In(i + 1, 128, 143) /\ IsCont(s, i + 2) /\ IsCont(s, i + 3)
                 THEN 4 ELSE 0
         [] OTHER -> 0

Utf8CodePoint(s, i, w) ==
    CASE w = 1 -> s[i]
      [] w = 2 -> (s[i] - 192) * 64 + (s[i + 1] - 128)
      [] w = 3 -> (s[i] - 224) * 4096 + (s[i + 1] - 128) * 64 + (s[i + 2] - 128)
      [] w = 4 -> (s[i] - 240) * 262144 + (s[i + 1] - 128) * 4096
                    + (s[i + 2] - 128) * 64 + (s[i + 3] - 128)

RECURSIVE from_utf8_at(_, _)
from_utf8_at(s, i) ==
    IF i > Len(s) THEN Some(<< >>)
    ELSE LET w == Utf8Width(s, i)
         IN IF w = 0 THEN [kind |-> "Utf8Error", val |-> << >>]
            ELSE LET rest == from_utf8_at(s, i + w)
                 IN IF rest.kind # "Some" THEN rest
                    ELSE Some(<< Utf8CodePoint(s, i, w) >> \o rest.val)

from_utf8(bytes) == from_utf8_at(bytes, 1)

bytes_to_string(bytes) ==
    LET v == from_utf8(bytes)
    IN IF v.kind = "Some" THEN v ELSE Panic("Invalid UTF-8 sequence")

---------------------------------------------------------------------------
(* rom.rs: Rom::from_buffer *)

TooSmall_off_by_one(b) == Len(b) < GLOBAL_CHECKSUM_ADDR + 1

(* the size test of line 347 *)
TooSmall(b) == Len(b) <= GLOBAL_CHECKSUM_ADDR + 1

is_new_cartridge_at_new_licensee(b) ==
    At(b, NEW_LICENSEE_CODE_ADDR) = NEW_CARTRIDGE_FLAG

(* line 352 *)
is_new_cartridge(b) == At(b, OLD_LICENSEE_CODE_ADDR) = NEW_CARTRIDGE_FLAG

title_end_addr_swapped(new_cartridge) ==
    IF new_cartridge THEN NEW_LICENSEE_CODE_ADDR ELSE MANUFACTURER_CODE_ADDR

title_end_addr(new_cartridge) ==
    IF new_cartridge THEN MANUFACTURER_CODE_ADDR ELSE NEW_LICENSEE_CODE_ADDR

read_cgb_flag_always(b, new_cartridge) ==
    CgbFlag_from_u8(At(b, CGB_FLAG_ADDR))

(* the Option whose ok_or_else line 363 takes, or NoCgb when old-style *)
read_cgb_flag(b, new_cartridge) ==
    IF new_cartridge THEN CgbFlag_from_u8(At(b, CGB_FLAG_ADDR)) ELSE "NoCgb"

read_enum_flags_sgb_after_type(b, new_cartridge) ==
    LET cgb_flag == read_cgb_flag(b, new_cartridge)
        sgb_flag == SgbFlag_from_u8(At(b, SGB_FLAG_ADDR))
        cartridge_type == CartridgeType_from_u8(At(b, CARTRIDGE_TYPE_ADDR))
        rom_size == RomSize_from_u8(At(b, ROM_SIZE_ADDR))
        ram_size == RamSize_from_u8(At(b, RAM_SIZE_ADDR))
        destination_code == DestinationCode_from_u8(At(b, DESTINATION_CODE_ADDR))
    IN IF cgb_flag = None THEN
           Err("Invalid CGB flag: " \o FmtUpperHexAlt(At(b, CGB_FLAG_ADDR)))
       ELSE IF cartridge_type = None THEN
           Err("Invalid cartridge type flag: "
                 \o FmtUpperHexAlt(At(b, CARTRIDGE_TYPE_ADDR)))
       ELSE IF sgb_flag = None THEN
           Err("Invalid SGB flag: " \o FmtUpperHexAlt(At(b, SGB_FLAG_ADDR)))
       ELSE IF rom_size = None THEN
           Err("Invalid ROM size flag: " \o FmtUpperHexAlt(At(b, ROM_SIZE_ADDR)))
       ELSE IF ram_size = None THEN
           Err("Invalid RAM size flag: " \o FmtUpperHexAlt(At(b, RAM_SIZE_ADDR)))
       ELSE IF destination_code = None THEN
           Err("Invalid destination code: "
                 \o FmtUpperHexAlt(At(b, DESTINATION_CODE_ADDR)))
       ELSE Ok([cgb_flag |-> cgb_flag, sgb_flag |-> sgb_flag,
                cartridge_type |-> cartridge_type, rom_size |-> rom_size,
                ram_size |-> ram_size, destination_code |-> destination_code])

(* "read the enum flags": each try! returns the Err at once, in source order *)
read_enum_flags(b, new_cartridge) ==
    LET cgb_flag == read_cgb_flag(b, new_cartridge)
        sgb_flag == SgbFlag_from_u8(At(b, SGB_FLAG_ADDR))
        cartridge_type == CartridgeType_from_u8(At(b, CARTRIDGE_TYPE_ADDR))
        rom_size == RomSize_from_u8(At(b, ROM_SIZE_ADDR))
        ram_size == RamSize_from_u8(At(b, RAM_SIZE_ADDR))
        destination_code == DestinationCode_from_u8(At(b, DESTINATION_CODE_ADDR))
    IN IF cgb_flag = None THEN
           Err("Invalid CGB flag: " \o FmtUpperHexAlt(At(b, CGB_FLAG_ADDR)))
       ELSE IF sgb_flag = None THEN
           Err("Invalid SGB flag: " \o FmtUpperHexAlt(At(b, SGB_FLAG_ADDR)))
       ELSE IF cartridge_type = None THEN
           Err("Invalid cartridge type flag: "
                 \o FmtUpperHexAlt(At(b, CARTRIDGE_TYPE_ADDR)))
       ELSE IF rom_size = None THEN
           Err("Invalid ROM size flag: " \o FmtUpperHexAlt(At(b, ROM_SIZE_ADDR)))
       ELSE IF ram_size = None THEN
           Err("Invalid RAM size flag: " \o FmtUpperHexAlt(At(b, RAM_SIZE_ADDR)))
       ELSE IF destination_code = None THEN
           Err("Invalid destination code: "
                 \o FmtUpperHexAlt(At(b, DESTINATION_CODE_ADDR)))
       ELSE Ok([cgb_flag |-> cgb_flag, sgb_flag |-> sgb_flag,
                cartridge_type |-> cartridge_type, rom_size |-> rom_size,
                ram_size |-> ram_size, destination_code |-> destination_code])

(* the three String fields of the struct literal, lines 392-394 *)
read_strings(b, new_cartridge) ==
    LET title == bytes_to_string(
                     Slice(b, TITLE_ADDR, title_end_addr(new_cartridge)))
        manufacturer_code ==
            IF new_cartridge
               THEN bytes_to_string(Slice(b, MANUFACTURER_CODE_ADDR, CGB_FLAG_ADDR))
               ELSE Some(<< >>)
        new_licensee_code ==
            IF new_cartridge
               THEN bytes_to_string(Slice(b, NEW_LICENSEE_CODE_ADDR, SGB_FLAG_ADDR))
               ELSE Some(<< >>)
    IN IF title.kind = "Panic" THEN title
       ELSE IF manufacturer_code.kind = "Panic" THEN manufacturer_code
       ELSE IF new_licensee_code.kind = "Panic" THEN new_licensee_code
       ELSE Ok([title |-> title.val,
                manufacturer_code |-> manufacturer_code.val,
                new_licensee_code |-> new_licensee_code.val])

(* line 404 *)
global_checksum_of(b) ==
    BitOr(ShiftLeft16(At(b, GLOBAL_CHECKSUM_ADDR), 8),
          At(b, GLOBAL_CHECKSUM_ADDR + 1))

from_buffer(b) ==
    IF TooSmall(b) THEN
        Err("ROM file is too small. Size: " \o FmtDisplay(Len(b)) \o " bytes")
    ELSE IF ~InBounds(b, OLD_LICENSEE_CODE_ADDR) THEN IndexPanic
    ELSE
        LET new_cartridge == is_new_cartridge(b)
            entry_point == get_subarray_of_vector(4, b, ENTRY_POINT_ADDR)
            nintendo_logo == get_subarray_of_vector(48, b, NINTENDO_LOGO_ADDR)
        IN IF entry_point.kind = "Panic" THEN entry_point
           ELSE IF nintendo_logo.kind = "Panic" THEN nintendo_logo
           ELSE
             LET flags == read_enum_flags(b, new_cartridge)
             IN IF flags.kind # "Ok" THEN flags
                ELSE
                  LET strings == read_strings(b, new_cartridge)
                  IN IF strings.kind # "Ok" THEN strings
                     ELSE IF ~InBounds(b, GLOBAL_CHECKSUM_ADDR + 1) THEN IndexPanic
                     ELSE Ok([
                        entry_point |-> entry_point.val,
                        nintendo_logo |-> nintendo_logo.val,
                        title |-> strings.rom.title,
                        manufacturer_code |-> strings.rom.manufacturer_code,
                        new_licensee_code |-> strings.rom.new_licensee_code,
                        cgb_flag |-> flags.rom.cgb_flag,
                        sgb_flag |-> flags.rom.sgb_flag,
                        cartridge_type |-> flags.rom.cartridge_type,
                        rom_size |-> flags.rom.rom_size,
                        ram_size |-> flags.rom.ram_size,
                        destination_code |-> flags.rom.destination_code,
                        old_licensee_code |-> At(b, OLD_LICENSEE_CODE_ADDR),
                        mask_rom_version_number |->
                            At(b, MASK_ROM_VERSION_NUMBER_ADDR),
                        header_checksum |-> At(b, HEADER_CHECKSUM_ADDR),
                        global_checksum |-> global_checksum_of(b),
                        new_cartridge |-> new_cartridge,
                        rom_data |-> b])

---------------------------------------------------------------------------
(* rom.rs: the validation predicates of a Rom *)

header_checksum_step_no_decrement(acc, x) == wrapping_sub16(acc, x)

(* the loop body of line 415 *)
header_checksum_step(acc, x) == wrapping_sub16(wrapping_sub16(acc, x), 1)

RECURSIVE header_checksum_loop(_, _, _, _)
header_checksum_loop(rom_data, i, end, acc) ==
    IF i >= end THEN acc
    ELSE header_checksum_loop(rom_data, i + 1, end,
             header_checksum_step(acc, At(rom_data, i)))

calculated_header_checksum(rom) ==
    header_checksum_loop(rom.rom_data, TITLE_ADDR, HEADER_CHECKSUM_ADDR, 0)

is_header_checksum_valid(rom) ==
    calculated_header_checksum(rom) % U8 = rom.header_checksum

global_checksum_step_all(acc, i, x) == wrapping_add16(acc, x)

(* the loop body of lines 426-428 *)
global_checksum_step(acc, i, x) ==
    IF i # GLOBAL_CHECKSUM_ADDR /\ i # (GLOBAL_CHECKSUM_ADDR + 1)
       THEN wrapping_add16(acc, x)
       ELSE acc

(* the iterations from..to-1 of the loop, in order, started with acc: the *)
(* first half's accumulator is handed to the second half                  *)
RECURSIVE global_checksum_loop(_, _, _, _)
global_checksum_loop(rom_data, from, to, acc) ==
    IF from >= to THEN acc
    ELSE IF to = from + 1 THEN global_checksum_step(acc, from, At(rom_data, from))
    ELSE LET mid == (from + to) \div 2
             half == global_checksum_loop(rom_data, from, mid, acc)
         IN IF half < U16 THEN global_checksum_loop(rom_data, mid, to, half)
            ELSE half

calculated_global_checksum(rom) ==
    global_checksum_loop(rom.rom_data, 0, Len(rom.rom_data), 0)

is_global_checksum_valid(rom) ==
    calculated_global_checksum(rom) = rom.global_checksum

is_nintendo_logo_valid_short(rom) ==
    \A k \in 1 .. Len(VALID_NINTENDO_LOGO) - 1 :
        rom.nintendo_logo[k] = VALID_NINTENDO_LOGO[k]

(* zip stops at the shorter of the two; both are 48 long *)
is_nintendo_logo_valid(rom) ==
    \A k \in 1 .. Len(VALID_NINTENDO_LOGO) :
        k <= Len(rom.nintendo_logo) => rom.nintendo_logo[k] = VALID_NINTENDO_LOGO[k]

---------------------------------------------------------------------------
(* The ROM images the driver is run on *)

MaxExtra == 1     \* image bytes beyond the header: 0 .. MaxExtra
MaxText == 2      \* length of the exhaustively enumerated text fragments

HeaderLen == GLOBAL_CHECKSUM_ADDR + 2

Filled(len, x) == [i \in 1 .. len |-> x]

(* b with the bytes of `bytes` written at address addr *)
With(b, addr, bytes) ==
    SubSeq(b, 1, addr) \o bytes \o SubSeq(b, addr + Len(bytes) + 1, Len(b))

Zeros == Filled(HeaderLen + MaxExtra, 0)

Ones == Filled(HeaderLen + MaxExtra, 255)

Blank(flag) ==
    With(SubSeq(Zeros, 1, HeaderLen), OLD_LICENSEE_CODE_ADDR, << flag >>)

RECURSIVE SumBytes(_, _, _)
SumBytes(b, from, to) ==
    IF from >= to THEN 0
    ELSE IF to = from + 1 THEN At(b, from)
    ELSE LET mid == (from + to) \div 2
         IN SumBytes(b, from, mid) + SumBytes(b, mid, to)

(* the sum a cartridge author stores at 0x014E: all bytes but those two *)
AuthorGlobalSum(b) ==
    (SumBytes(b, 0, Len(b)) - At(b, GLOBAL_CHECKSUM_ADDR)
       - At(b, GLOBAL_CHECKSUM_ADDR + 1)) % U16

(* the byte a cartridge author stores at 0x014D *)
AuthorHeaderSum(b) ==
    (0 - SumBytes(b, TITLE_ADDR, HEADER_CHECKSUM_ADDR)
       - (HEADER_CHECKSUM_ADDR - TITLE_ADDR)) % U8

FormatBytes == {0, NEW_CARTRIDGE_FLAG}

EnumAddrs ==
    << CGB_FLAG_ADDR, SGB_FLAG_ADDR, CARTRIDGE_TYPE_ADDR, ROM_SIZE_ADDR,
       RAM_SIZE_ADDR, DESTINATION_CODE_ADDR >>

(* images shorter than a header *)
ShortImages ==
    { SubSeq(fill, 1, n) : n \in 0 .. HeaderLen - 1, fill \in {Zeros, Ones} }

(* one enumerated field takes every byte value *)
EnumSweepImages ==
    { With(Blank(flag), EnumAddrs[f], << v >>) :
        flag \in FormatBytes, f \in DOMAIN EnumAddrs, v \in Byte }

(* for each enumerated field, a code outside its domain *)
BadCodes == << 127, 130, 131, 132, 133, 134 >>

(* CGB flag, new licensee code, SGB flag .. destination code *)
EnumBytes(bad) ==
    LET code(f) == IF f \in bad THEN BadCodes[f] ELSE 0
    IN << code(1), 0, 0, code(2), code(3), code(4), code(5), code(6) >>

(* any subset of the enumerated fields holds a code of no domain *)
MultiInvalidImages ==
    { With(Blank(flag), CGB_FLAG_ADDR, EnumBytes(bad)) :
        flag \in FormatBytes, bad \in SUBSET (DOMAIN EnumAddrs) }

TextBytes == {0, 65, 128, 191, 195, 226, 240, 255}

TextSamples ==
    { << 80, 79, 75, 69, 77, 79, 78 >>,         \* POKEMON
      << 195, 169 >>,                           \* U+00E9
      << 226, 130, 172 >>,                      \* U+20AC
      << 240, 159, 152, 128 >>,                 \* U+1F600
      << 244, 143, 191, 191 >>,                 \* U+10FFFF
      << 192, 128 >>,                           \* overlong
      << 224, 128, 128 >>,                      \* overlong
      << 237, 160, 128 >>,                      \* surrogate
      << 240, 128, 128, 128 >>,                 \* overlong
      << 244, 144, 128, 128 >>,                 \* above U+10FFFF
      << 245, 128, 128, 128 >>,
      << 226, 130 >>,                           \* truncated
      << 240, 159, 152 >> }

TextFragments ==
    UNION { [1 .. n -> TextBytes] : n \in 0 .. MaxText } \cup TextSamples

TextStarts ==
    { TITLE_ADDR, MANUFACTURER_CODE_ADDR - 2, MANUFACTURER_CODE_ADDR - 1,
      MANUFACTURER_CODE_ADDR, CGB_FLAG_ADDR - 1, NEW_LICENSEE_CODE_ADDR - 2,
      NEW_LICENSEE_CODE_ADDR - 1, NEW_LICENSEE_CODE_ADDR }

(* text, well-formed or not, in and across the three text fields *)
TextImages ==
    { With(Blank(flag), a, t) :
        flag \in FormatBytes, a \in TextStarts, t \in TextFragments }

(* every stored header checksum *)
HeaderChecksumImages ==
    { With(Blank(flag), HEADER_CHECKSUM_ADDR, << c >>) :
        flag \in FormatBytes, c \in Byte }

Unsigned(flag, extra) ==
    SubSeq(Ones, 1, NINTENDO_LOGO_ADDR)
      \o VALID_NINTENDO_LOGO
      \o << 80, 79, 75, 69, 77, 79, 78 >>
      \o SubSeq(Zeros, 1, OLD_LICENSEE_CODE_ADDR - TITLE_ADDR - 7)
      \o << flag >>
      \o SubSeq(Zeros, 1, HeaderLen - OLD_LICENSEE_CODE_ADDR - 1)
      \o SubSeq(Ones, 1, extra)

(* the header checksum and then the global checksum written by the author *)
Signed(b) ==
    LET h == AuthorHeaderSum(b)
        g == (AuthorGlobalSum(b) + h) % U16
    IN With(b, HEADER_CHECKSUM_ADDR, << h, g \div U8, g % U8 >>)

(* well-formed cartridges: the logo, a title, both checksums, and enough  *)
(* 0xFF bytes before the header for their sum to pass 65535               *)
Cartridges ==
    { Signed(Unsigned(flag, extra)) :
        flag \in FormatBytes, extra \in 0 .. MaxExtra }

Images ==
    ShortImages \cup EnumSweepImages \cup MultiInvalidImages \cup TextImages
      \cup HeaderChecksumImages \cup Cartridges

---------------------------------------------------------------------------
(* The driver, main.rs: decode the image, then query the three predicates. *)
(* A harness may afterwards alter one byte of the image and run it again.  *)

NoResult == [kind |-> "None"]

Untampered == [kind |-> "none", addr |-> 0]

Init ==
    /\ buf \in Images
    /\ pc = "decode"
    /\ result = NoResult
    /\ header_checksum_valid = FALSE
    /\ global_checksum_valid = FALSE
    /\ nintendo_logo_valid = FALSE
    /\ tampered = Untampered

(* Rom::from_buffer(buf); main panics on Err, a panic inside unwinds *)
FromBuffer ==
    /\ pc = "decode"
    /\ result' = from_buffer(buf)
    /\ pc' = CASE result'.kind = "Ok"  -> "header"
               [] result'.kind = "Err" -> "failed"
               [] OTHER                -> "panicked"
    /\ UNCHANGED <<buf, header_checksum_valid, global_checksum_valid,
                   nintendo_logo_valid, tampered>>

IsHeaderChecksumValid ==
    /\ pc = "header"
    /\ header_checksum_valid' = is_header_checksum_valid(result.rom)
    /\ pc' = "global"
    /\ UNCHANGED <<buf, result, global_checksum_valid, nintendo_logo_valid,
                   tampered>>

IsGlobalChecksumValid ==
    /\ pc = "global"
    /\ global_checksum_valid' = is_global_checksum_valid(result.rom)
    /\ pc' = "logo"
    /\ UNCHANGED <<buf, result, header_checksum_valid, nintendo_logo_valid,
                   tampered>>

IsNintendoLogoValid ==
    /\ pc = "logo"
    /\ nintendo_logo_valid' = is_nintendo_logo_valid(result.rom)
    /\ pc' = "done"
    /\ UNCHANGED <<buf, result, header_checksum_valid, global_checksum_valid,
                   tampered>>

Rerun(image, how) ==
    /\ buf' = image
    /\ pc' = "decode"
    /\ result' = NoResult
    /\ header_checksum_valid' = FALSE
    /\ global_checksum_valid' = FALSE
    /\ nintendo_logo_valid' = FALSE
    /\ tampered' = how

(* one byte other than the stored global checksum is incremented (as a u8) *)
(* in an image whose global checksum was found valid                       *)
IncrementByte ==
    /\ pc = "done"
    /\ tampered = Untampered
    /\ global_checksum_valid
    /\ \E addr \in 0 .. Len(buf) - 1 :
         /\ addr \notin {GLOBAL_CHECKSUM_ADDR, GLOBAL_CHECKSUM_ADDR + 1}
         /\ Rerun(With(buf, addr, << (At(buf, addr) + 1) % U8 >>),
                  [kind |-> "increment", addr |-> addr])

LogoDeltas == {1, 128, 255}

(* one byte of the logo is changed in an image whose logo was found valid *)
ChangeLogoByte ==
    /\ pc = "done"
    /\ tampered = Untampered
    /\ nintendo_logo_valid
    /\ \E addr \in NINTENDO_LOGO_ADDR .. TITLE_ADDR - 1, d \in LogoDeltas :
         Rerun(With(buf, addr, << (At(buf, addr) + d) % U8 >>),
               [kind |-> "logo", addr |-> addr])

Next ==
    \/ FromBuffer
    \/ IsHeaderChecksumValid
    \/ IsGlobalChecksumValid
    \/ IsNintendoLogoValid
    \/ IncrementByte
    \/ ChangeLogoByte

Spec == Init /\ [][Next]_vars

TypeOK ==
    /\ buf \in Seq(Byte)
    /\ pc \in {"decode", "header", "global", "logo", "done", "failed", "panicked"}
    /\ result.kind \in {"None", "Ok", "Err", "Panic"}
    /\ header_checksum_valid \in BOOLEAN
    /\ global_checksum_valid \in BOOLEAN
    /\ nintendo_logo_valid \in BOOLEAN

---------------------------------------------------------------------------
(* What the header format says, stated apart from the decoder *)

Called == pc # "decode"

Decoded == result.kind = "Ok"

LongEnough == Len(buf) >= 336

NewStyle == At(buf, 331) = 51

FieldAddr ==
    [cgb |-> 323, sgb |-> 326, type |-> 327, rom |-> 328, ram |-> 329,
     dest |-> 330]

FieldDomain ==
    [cgb  |-> {0, 128, 192},
     sgb  |-> {0, 3},
     type |-> {0, 1, 2, 3, 5, 6, 8, 9, 11, 12, 13, 15, 16, 17, 18, 19, 21, 22,
               23, 25, 26, 27, 28, 29, 30, 32, 34, 252, 253, 254, 255},
     rom  |-> (0 .. 7) \cup {82, 83, 84},
     ram  |-> 0 .. 5,
     dest |-> {0, 1}]

FieldOrder == << "cgb", "sgb", "type", "rom", "ram", "dest" >>

FieldMessage ==
    [cgb  |-> "Invalid CGB flag: ",
     sgb  |-> "Invalid SGB flag: ",
     type |-> "Invalid cartridge type flag: ",
     rom  |-> "Invalid ROM size flag: ",
     ram  |-> "Invalid RAM size flag: ",
     dest |-> "Invalid destination code: "]

(* the enumerated fields of buf that are examined and hold a foreign code *)
Offending ==
    { k \in DOMAIN FieldOrder :
        /\ FieldOrder[k] = "cgb" => NewStyle
        /\ At(buf, FieldAddr[FieldOrder[k]]) \notin FieldDomain[FieldOrder[k]] }

FailureFor(k) ==
    [kind |-> "Err", error |-> "FormatError",
     msg |-> FieldMessage[FieldOrder[k]]
               \o FmtUpperHexAlt(At(buf, FieldAddr[FieldOrder[k]]))]

IsFailure(r) == r.kind = "Err" /\ r.error = "FormatError"

IsSizeFailure(r) ==
    /\ IsFailure(r)
    /\ r.msg \in { "ROM file is too small. Size: " \o FmtDisplay(n) \o " bytes" :
                     n \in 0 .. HeaderLen + MaxExtra + 1 }

RECURSIVE Utf8Encode(_)
Utf8Encode(str) ==
    IF str = << >> THEN << >>
    ELSE LET c == Head(str)
             enc == CASE c < 128   -> << c >>
                      [] c < 2048  -> << 192 + (c \div 64), 128 + (c % 64) >>
                      [] c < 65536 -> << 224 + (c \div 4096),
                                         128 + ((c \div 64) % 64), 128 + (c % 64) >>
                      [] OTHER     -> << 240 + (c \div 262144),
                                         128 + ((c \div 4096) % 64),
                                         128 + ((c \div 64) % 64), 128 + (c % 64) >>
         IN enc \o Utf8Encode(Tail(str))

---------------------------------------------------------------------------
(* C1: whatever the buffer, from_buffer returns a record or a RomLoadError *)
(* and never aborts the process.                                           *)
C1_NeverAborts == Called => result.kind \in {"Ok", "Err"}

C3_ClosedDomains ==
    /\ (Called /\ LongEnough /\ Offending # {}) =>
          \E k \in Offending : result = FailureFor(k)
    /\ Decoded =>
          /\ NewStyle => CgbFlag[result.rom.cgb_flag] = At(buf, 323)
          /\ SgbFlag[result.rom.sgb_flag] = At(buf, 326)
          /\ CartridgeType[result.rom.cartridge_type] = At(buf, 327)
          /\ RomSize[result.rom.rom_size] = At(buf, 328)
          /\ RamSize[result.rom.ram_size] = At(buf, 329)
          /\ DestinationCode[result.rom.destination_code] = At(buf, 330)
          /\ \A k \in DOMAIN FieldOrder :
               (FieldOrder[k] = "cgb" => NewStyle) =>
                 At(buf, FieldAddr[FieldOrder[k]]) \in FieldDomain[FieldOrder[k]]

C3_Witness ==
    /\ pc = "failed"
    /\ LongEnough
    /\ At(buf, 327) = 4
    /\ result.msg = "Invalid cartridge type flag: 0x4"

(* C4: an old-style record has empty manufacturer and new-licensee codes   *)
(* and cgb_flag NoCgb whatever bytes lie at 0x013F..0x0145, and an         *)
(* old-style buffer never fails on its color-support byte.                 *)
C4_OldStyleFields ==
    /\ (Decoded /\ ~NewStyle) =>
          /\ result.rom.new_cartridge = FALSE
          /\ result.rom.manufacturer_code = << >>
          /\ result.rom.new_licensee_code = << >>
          /\ result.rom.cgb_flag = "NoCgb"
    /\ (Called /\ LongEnough /\ ~NewStyle) => result # FailureFor(1)

C4_Witness ==
    /\ Decoded
    /\ ~NewStyle
    /\ At(buf, 323) = 65
    /\ At(buf, 324) = 255

(* C5: is_header_checksum_valid() is true iff the byte at 0x014D equals    *)
(* (0 - the sum of the 25 bytes at 0x0134..0x014C - 25) mod 256.           *)
C5_HeaderChecksum ==
    pc \in {"global", "logo", "done"} =>
      header_checksum_valid =
        (At(buf, 333) = (0 - SumBytes(buf, 308, 333) - 25) % 256)

C5_Witness ==
    /\ pc = "done"
    /\ header_checksum_valid
    /\ NewStyle
    /\ SumBytes(buf, 308, 333) + 25 > 256

(* C6: is_global_checksum_valid() is true iff the big-endian value at      *)
(* 0x014E/0x014F equals the sum mod 65536 of every other byte of the       *)
(* buffer; incrementing one other byte of a buffer it accepts makes it     *)
(* return false.                                                           *)
C6_GlobalChecksum ==
    /\ pc \in {"logo", "done"} =>
         global_checksum_valid =
           (At(buf, 334) * 256 + At(buf, 335) =
              (SumBytes(buf, 0, 334) + SumBytes(buf, 336, Len(buf))) % 65536)
    /\ (pc \in {"logo", "done"} /\ tampered.kind = "increment") =>
         ~global_checksum_valid

C6_Witness ==
    /\ pc = "done"
    /\ tampered.kind = "increment"
    /\ tampered.addr = Len(buf) - 1
    /\ Len(buf) > 336
    /\ SumBytes(buf, 0, 334) > 65536
    /\ ~global_checksum_valid

(* C7: is_nintendo_logo_valid() is true iff the 48 bytes at 0x0104..0x0133 *)
(* equal the reference constant position by position; changing one of them *)
(* in a buffer it accepts makes it return false.                           *)
C7_NintendoLogo ==
    /\ pc = "done" =>
         nintendo_logo_valid =
           (\A i \in 0 .. 47 : At(buf, 260 + i) = VALID_NINTENDO_LOGO[i + 1])
    /\ (pc = "done" /\ tampered.kind = "logo") => ~nintendo_logo_valid

C7_Witness ==
    /\ pc = "done"
    /\ tampered.kind = "logo"
    /\ tampered.addr = 307
    /\ ~nintendo_logo_valid

(* C8, as stated: the 0x0150-byte buffer that is zero but for 0x33 at      *)
(* 0x014B decodes as a new-style record with sgb_flag NoSgbSupport and the *)
(* empty string as title.                                                  *)
C8_Original ==
    (Called /\ buf = [i \in 1 .. 336 |-> IF i = 332 THEN 51 ELSE 0]) =>
      /\ Decoded
      /\ result.rom.new_cartridge
      /\ result.rom.sgb_flag = "NoSgbSupport"
      /\ result.rom.title = << >>

(* C8, amended: that buffer decodes as a new-style record with sgb_flag    *)
(* NoSgbSupport whose title is the string of eleven U+0000 characters.     *)
C8_Amended ==
    (Called /\ buf = [i \in 1 .. 336 |-> IF i = 332 THEN 51 ELSE 0]) =>
      /\ Decoded
      /\ result.rom.new_cartridge
      /\ result.rom.sgb_flag = "NoSgbSupport"
      /\ result.rom.title = [i \in 1 .. 11 |-> 0]

C8_Witness ==
    /\ pc = "done"
    /\ buf = [i \in 1 .. 336 |-> IF i = 332 THEN 51 ELSE 0]
    /\ Len(result.rom.title) = 11

(* C9: when enumerated fields hold foreign codes, the failure returned is  *)
(* the one of the first offending field in the order color-support (new-   *)
(* style only), super-support, cartridge type, ROM size, RAM size,         *)
(* destination code, and it is the only one reported.                      *)
C9_FailFast ==
    (Called /\ LongEnough /\ Offending # {}) =>
      result = FailureFor(CHOOSE k \in Offending : \A j \in Offending : k <= j)

C9_Witness ==
    /\ pc = "failed"
    /\ LongEnough
    /\ ~NewStyle
    /\ Cardinality(Offending) = 5
    /\ result.msg = "Invalid SGB flag: 0x82"

(* C10, as stated: the title is the text of exactly the bytes from 0x0134 *)
(* up to the title end offset, 0x013F when new-style (11 bytes) and       *)
(* 0x0144 when old-style (15 bytes).                                      *)
C10_Original ==
    Decoded =>
      /\ Utf8Encode(result.rom.title) =
           SubSeq(buf, 309, IF NewStyle THEN 319 ELSE 324)
      /\ Len(Utf8Encode(result.rom.title)) = IF NewStyle THEN 11 ELSE 15

(* C10, amended: the title is the text of exactly the bytes from 0x0134   *)
(* up to the title end offset, 0x013F when new-style (11 bytes) and       *)
(* 0x0144 when old-style (16 bytes).                                      *)
C10_TitleBytes ==
    Decoded =>
      /\ Utf8Encode(result.rom.title) =
           SubSeq(buf, 309, IF NewStyle THEN 319 ELSE 324)
      /\ Len(Utf8Encode(result.rom.title)) = IF NewStyle THEN 11 ELSE 16

C10_Witness ==
    /\ Decoded
    /\ NewStyle
    /\ At(buf, 318) = 65
    /\ At(buf, 319) = 65
    /\ result.rom.title = << 0, 0, 0, 0, 0, 0, 0, 0, 0, 0, 65 >>

===========================================================================
